---------------------------- MODULE Spec2Model ----------------------------
(***************************************************************************)
(* Hamiltonian simulation notebook (hamiltonian_simulation.ipynb):         *)
(*   step 1  greedy grouping of the Pauli terms into commuting subsets     *)
(*   step 2  sim_cliff_diag: simultaneous Clifford diagonalization         *)
(*   step 3  walk_paulis: circuit for the diagonal Paulis                  *)
(*   step 4  Trotter concatenation of the group circuits                   *)
(*                                                                         *)
(* Conventions.  A Python list is a TLA+ sequence (Python position p is    *)
(* sequence index p+1).  A numpy array keeps the source's 0-based          *)
(* indices: a bit row is a function 0..n-1 -> BOOLEAN, a matrix X is a     *)
(* function of the row index, and X[i][j] is the source's X[i,j].  Column  *)
(* j of a matrix, and position j of a Pauli's x and z arrays, is qubit j.  *)
(***************************************************************************)
EXTENDS Integers, Sequences, FiniteSets, TLC

VARIABLES
    paulis,             \* step 0: the list of input terms (PauliOp objects)
    commuting_subsets,  \* step 1: list of lists of references into paulis
    gpos,               \* step 1: how many terms the outer for loop has taken
    diag,               \* step 2: the locals of one run of sim_cliff_diag
    walk,               \* step 3: the locals of one run of walk_paulis
    circuits,           \* step 4: the per-group circuits
    master_circuit,     \* step 4: the emitted circuit
    tpos,               \* step 4: how many circuits the Trotter loops composed
    pc                  \* the cell the notebook is in, or the error it ended in

vars == <<paulis, commuting_subsets, gpos, diag, walk, circuits,
          master_circuit, tpos, pc>>

--------------------------------------------------------------------------
(* Bounds of the checked instances *)

\* step 1 alone: qubits per Pauli and terms per input list
GroupNQ == 1
GroupMaxTerms == 3

--------------------------------------------------------------------------
(* Bits, Paulis, terms *)

Range(n) == 0 .. (n - 1)

Bits(n) == [Range(n) -> BOOLEAN]

\* numpy.logical_xor / logical_and on single entries
lx(a, b) == a # b
la(a, b) == a /\ b

\* A Pauli built from a label: x and z arrays, phase 0 (Y is x = z = True).
PauliSet(n) == [x : Bits(n), z : Bits(n)]

NumQubits(p) == Cardinality(DOMAIN p.x)

\* The sequence idiom for "all lists of 1..maxlen elements of S"
ListsUpTo(S, maxlen) == UNION {[1 .. k -> S] : k \in 1 .. maxlen}

Min(S) == CHOOSE a \in S : \A b \in S : a <= b
Max(S) == CHOOSE a \in S : \A b \in S : a >= b

\* qiskit Pauli.commutes: the symplectic product of the two is even
Commutes(p, q) ==
    Cardinality({k \in DOMAIN p.x :
                    lx(la(p.x[k], q.z[k]), la(p.z[k], q.x[k]))}) % 2 = 0

--------------------------------------------------------------------------
(* Step 1: partition the hamiltonian into mutually commuting subsets *)

\* any(...) where the code has all(...)
AnyCommute(ps, t, subset) ==
    \E a \in 1 .. Len(subset) : Commutes(ps[t], ps[subset[a]])

\* all([pauli.primitive.commutes(p.primitive) for p in subset])
AllCommute(ps, t, subset) ==
    \A a \in 1 .. Len(subset) : Commutes(ps[t], ps[subset[a]])

\* the last subset that fits where the code takes the first
GroupInsertLast(ps, subsets, t) ==
    LET fits == {k \in 1 .. Len(subsets) : AllCommute(ps, t, subsets[k])}
    IN  IF fits # {}
        THEN [subsets EXCEPT ![Max(fits)] = Append(@, t)]
        ELSE Append(subsets, <<t>>)

\* One pass of the body of "for pauli in paulis" for the term at position t:
\* the inner for takes the first subset that fits, its else clause opens a
\* new subset.
GroupInsert(ps, subsets, t) ==
    LET fits == {g \in 1 .. Len(subsets) : AllCommute(ps, t, subsets[g])}
    IN  IF fits # {}
        THEN [subsets EXCEPT ![Min(fits)] = Append(@, t)]
        ELSE Append(subsets, <<t>>)

\* commuting_subsets = []
NoSubsets == <<>>

Idle == [pc |-> "idle"]

InitGroup ==
    /\ paulis \in ListsUpTo([x : Bits(GroupNQ), z : Bits(GroupNQ), coeff : {2}],
                            GroupMaxTerms)
    /\ commuting_subsets = NoSubsets
    /\ gpos = 0
    /\ diag = Idle
    /\ walk = Idle
    /\ circuits = <<>>
    /\ master_circuit = <<>>
    /\ tpos = 0
    /\ pc = "group"

GroupStep ==
    /\ pc = "group"
    /\ gpos < Len(paulis)
    /\ commuting_subsets' = GroupInsert(paulis, commuting_subsets, gpos + 1)
    /\ gpos' = gpos + 1
    /\ UNCHANGED <<paulis, diag, walk, circuits, master_circuit, tpos, pc>>

GroupEnd ==
    /\ pc = "group"
    /\ gpos = Len(paulis)
    /\ pc' = "grouped"
    /\ UNCHANGED <<paulis, commuting_subsets, gpos, diag, walk, circuits,
                   master_circuit, tpos>>

--------------------------------------------------------------------------
(* Circuits: qc.data is a list of gates *)

Gate(name, qubits, param) == [name |-> name, qubits |-> qubits, param |-> param]

GateH(i) == Gate("h", <<i>>, 0)
GateS(i) == Gate("s", <<i>>, 0)
GateCX(i, j) == Gate("cx", <<i, j>>, 0)

\* list.pop(i) for a position inside the list
PopAt(data, i) == SubSeq(data, 1, i) \o SubSeq(data, i + 2, Len(data))

--------------------------------------------------------------------------
(* Step 2: sim_cliff_diag.  A tableau T is the triple [X, Z, S] the       *)
(* helpers of sim_cliff_diag update in place.                             *)

Rows(M) == Cardinality(DOMAIN M)

SwapRows(M, i, k) == [M EXCEPT ![i] = M[k], ![k] = M[i]]

SwapCols(M, j, k) ==
    [row \in DOMAIN M |-> [M[row] EXCEPT ![j] = M[row][k], ![k] = M[row][j]]]

Int01(b) == IF b THEN 1 ELSE 0

\* g with the sign factor of its last case dropped: x2 * (1 - z2)
g_unsigned(x1, z1, x2, z2) ==
    IF x1 = 0 /\ z1 = 0 THEN 0
    ELSE IF x1 = 1 /\ z1 = 1 THEN z2 - x2
    ELSE IF x1 = 1 /\ z1 = 0 THEN z2 * (2 * x2 - 1)
    ELSE x2 * (1 - z2)

\* sweep_rows.g
g(x1, z1, x2, z2) ==
    IF x1 = 0 /\ z1 = 0 THEN 0
    ELSE IF x1 = 1 /\ z1 = 1 THEN z2 - x2
    ELSE IF x1 = 1 /\ z1 = 0 THEN z2 * (2 * x2 - 1)
    ELSE x2 * (1 - 2 * z2)

RECURSIVE SumG(_, _, _, _)
SumG(T, i, j, k) ==
    IF k = Cardinality(DOMAIN T.X[i]) THEN 0
    ELSE g(Int01(T.X[i][k]), Int01(T.Z[i][k]), Int01(T.X[j][k]), Int01(T.Z[j][k]))
         + SumG(T, i, j, k + 1)

\* The phase sum t of sweep_rows(X, Z, S, i, j)
SweepT(T, i, j) == 2 * Int01(T.S[j]) + 2 * Int01(T.S[i]) + SumG(T, i, j, 0)

\* sweep_rows(X, Z, S, i, j): row j becomes the product of rows i and j.  The
\* result carries raised = TRUE, and the tableau untouched, when the code
\* raises "Unexpected result in sweep_rows".
sweep_rows(T, i, j) ==
    LET t == SweepT(T, i, j) % 4
    IN  IF t # 0 /\ t # 2
        THEN [T EXCEPT !.raised = TRUE]
        ELSE [T EXCEPT !.S[j] = (t = 2),
                       !.X[j] = [k \in DOMAIN T.X[j] |-> lx(T.X[j][k], T.X[i][k])],
                       !.Z[j] = [k \in DOMAIN T.Z[j] |-> lx(T.Z[j][k], T.Z[i][k])]]

\* h(X, Z, S, i)
h(T, i) ==
    [T EXCEPT !.S = [row \in DOMAIN T.S |-> lx(T.S[row], la(T.X[row][i], T.Z[row][i]))],
              !.X = [row \in DOMAIN T.X |-> [T.X[row] EXCEPT ![i] = T.Z[row][i]]],
              !.Z = [row \in DOMAIN T.Z |-> [T.Z[row] EXCEPT ![i] = T.X[row][i]]]]

\* s(X, Z, S, i)
s(T, i) ==
    [T EXCEPT !.S = [row \in DOMAIN T.S |-> lx(T.S[row], la(T.X[row][i], T.Z[row][i]))],
              !.Z = [row \in DOMAIN T.Z |->
                        [T.Z[row] EXCEPT ![i] = lx(T.Z[row][i], T.X[row][i])]]]

\* cnot(X, Z, S, i, j)
cnot(T, i, j) ==
    LET Xb_Za_1 == [row \in DOMAIN T.S |-> lx(lx(T.X[row][j], T.Z[row][i]), TRUE)]
    IN  [T EXCEPT !.S = [row \in DOMAIN T.S |->
                            lx(T.S[row],
                               la(Xb_Za_1[row], la(T.X[row][i], T.Z[row][j])))],
                  !.X = [row \in DOMAIN T.X |->
                            [T.X[row] EXCEPT ![j] = lx(T.X[row][j], T.X[row][i])]],
                  !.Z = [row \in DOMAIN T.Z |->
                            [T.Z[row] EXCEPT ![i] = lx(T.Z[row][i], T.Z[row][j])]]]

\* cz(X, Z, S, i, j)
cz(T, i, j) == h(cnot(h(T, j), i, j), j)

\* np.linalg.matrix_rank of the 0/1 matrix (X | Z): the rank over the reals,
\* by fraction-free elimination on integer rows.
IntMatrix(X, Z, n) ==
    [i \in DOMAIN X |->
        [c \in Range(2 * n) |-> IF c < n THEN Int01(X[i][c]) ELSE Int01(Z[i][c - n])]]

RECURSIVE RankFrom(_, _, _, _, _)
RankFrom(M, rows, w, c, k) ==
    IF c = w \/ k = rows THEN k
    ELSE LET cand == {i \in k .. (rows - 1) : M[i][c] # 0}
         IN  IF cand = {} THEN RankFrom(M, rows, w, c + 1, k)
             ELSE LET M1 == SwapRows(M, Min(cand), k)
                      M2 == [l \in DOMAIN M |->
                                IF l > k
                                THEN [cc \in Range(w) |->
                                         M1[l][cc] * M1[k][c] - M1[k][cc] * M1[l][c]]
                                ELSE M1[l]]
                  IN  RankFrom(M2, rows, w, c + 1, k + 1)

matrix_rank(X, Z, n) == RankFrom(IntMatrix(X, Z, n), Rows(X), 2 * n, 0, 0)

\* The locals of sim_cliff_diag(paulis) after "r = np.linalg.matrix_rank(...)"
\* and "kx = 0": the interim tableau T, the output tableau T2, the circuit.
DiagInit(ps) ==
    LET n == NumQubits(ps[1])
        X == [i \in Range(Len(ps)) |-> ps[i + 1].x]
        Z == [i \in Range(Len(ps)) |-> ps[i + 1].z]
        S == [i \in Range(Len(ps)) |-> FALSE]
    IN  [pc |-> "diagX", nq |-> n, rows |-> Len(ps),
         T |-> [X |-> X, Z |-> Z, S |-> S, raised |-> FALSE],
         T2 |-> [X |-> X, Z |-> Z, S |-> S, raised |-> FALSE],
         qc |-> <<>>,
         r |-> matrix_rank(X, Z, n),
         kx |-> 0, kz |-> 0, k |-> 0, i |-> 0, j |-> 0]

\* The first (i, j), i in range(k, rows), j in range(k, n), with M[i, j]
PivotCells(M, k, rows, n) ==
    {c \in (k .. (rows - 1)) \X (k .. (n - 1)) : M[c[1]][c[2]]}

FirstPivot(M, k, rows, n) ==
    LET cells == PivotCells(M, k, rows, n)
        i == Min({c[1] : c \in cells})
    IN  <<i, Min({c[2] : c \in {cc \in cells : cc[1] = i}})>>

\* "for l in range(X.shape[0])": sweep row k into every other row l whose
\* entry in column k of M (X in the first loop, Z in the second) is set.
RECURSIVE SweepLoop(_, _, _, _, _)
SweepLoop(T, onX, k, l, rows) ==
    IF T.raised \/ l = rows THEN T
    ELSE IF l # k /\ (IF onX THEN T.X[l][k] ELSE T.Z[l][k])
         THEN SweepLoop(sweep_rows(T, k, l), onX, k, l + 1, rows)
         ELSE SweepLoop(T, onX, k, l + 1, rows)

\* "swap rows": X, Z and S of the interim tableau only
SwapTableauRows(T, i, k) ==
    [T EXCEPT !.X = SwapRows(T.X, i, k), !.Z = SwapRows(T.Z, i, k),
              !.S = SwapRows(T.S, i, k)]

\* "swap columns": X and Z of a tableau
SwapTableauCols(T, j, k) ==
    [T EXCEPT !.X = SwapCols(T.X, j, k), !.Z = SwapCols(T.Z, j, k)]

\* a column swap that emits no gate
NoSwapGates(j, k) == <<>>

\* a column swap emitted as one swap gate
SwapGateDirect(j, k) == <<Gate("swap", <<j, k>>, 0)>>

\* "SWAP with CNOTs"
SwapGates(j, k) == <<GateCX(j, k), GateCX(k, j), GateCX(j, k)>>

\* The body of "if X[i,j]:" / "if Z[i,j]:" for the pivot (i, j) of round k
PivotRound(d, onX, k, i, j) ==
    LET T1 == IF i # k THEN SwapTableauRows(d.T, i, k) ELSE d.T
        T1c == IF j # k THEN SwapTableauCols(T1, j, k) ELSE T1
        T2c == IF j # k THEN SwapTableauCols(d.T2, j, k) ELSE d.T2
        qc1 == IF j # k THEN d.qc \o SwapGates(j, k) ELSE d.qc
        T3 == SweepLoop(T1c, onX, k, 0, d.rows)
    IN  [d EXCEPT !.T = T3, !.T2 = T2c, !.qc = qc1,
                  !.pc = IF T3.raised THEN "SweepError" ELSE d.pc]

\* "diagonalize X": one pass of "for k in range(r)"
DiagonalizeX(d) ==
    IF d.k >= d.r
    THEN [d EXCEPT !.pc = "diagZ", !.kz = d.kx, !.k = d.kx]
    ELSE IF PivotCells(d.T.X, d.k, d.rows, d.nq) = {}
         THEN [d EXCEPT !.k = d.k + 1]
         ELSE LET c == FirstPivot(d.T.X, d.k, d.rows, d.nq)
                  d1 == PivotRound(d, TRUE, d.k, c[1], c[2])
              IN  [d1 EXCEPT !.kx = d.k + 1, !.k = d.k + 1]

\* "diagonalize Z": one pass of "for k in range(kx, r)"
DiagonalizeZ(d) ==
    IF d.k >= d.r
    THEN [d EXCEPT !.pc = "swapZX", !.j = d.kx]
    ELSE IF PivotCells(d.T.Z, d.k, d.rows, d.nq) = {}
         THEN [d EXCEPT !.k = d.k + 1]
         ELSE LET c == FirstPivot(d.T.Z, d.k, d.rows, d.nq)
                  d1 == PivotRound(d, FALSE, d.k, c[1], c[2])
              IN  [d1 EXCEPT !.kz = d.k + 1, !.k = d.k + 1]

\* the pass with h applied to the interim tableau only
SwapDiagZToXInterimOnly(d) ==
    IF d.j >= d.kz
    THEN [d EXCEPT !.pc = "elimX", !.i = 0, !.j = d.kz]
    ELSE [d EXCEPT !.T = h(d.T, d.j),
                   !.qc = Append(d.qc, GateH(d.j)), !.j = d.j + 1]

\* "swap diag Z to X": one pass of "for j in range(kx, kz)"
SwapDiagZToX(d) ==
    IF d.j >= d.kz
    THEN [d EXCEPT !.pc = "elimX", !.i = 0, !.j = d.kz]
    ELSE [d EXCEPT !.T = h(d.T, d.j), !.T2 = h(d.T2, d.j),
                   !.qc = Append(d.qc, GateH(d.j)), !.j = d.j + 1]

\* "eliminate off-diag X": one pass of the inner "for j in range(kz, n)"
EliminateOffDiagX(d) ==
    IF d.i >= d.kz
    THEN [d EXCEPT !.pc = "elimZ", !.i = 1, !.j = 0]
    ELSE IF d.j >= d.nq
    THEN [d EXCEPT !.i = d.i + 1, !.j = d.kz]
    ELSE IF d.T.X[d.i][d.j]
    THEN [d EXCEPT !.T = cnot(d.T, d.i, d.j), !.T2 = cnot(d.T2, d.i, d.j),
                   !.qc = Append(d.qc, GateCX(d.i, d.j)), !.j = d.j + 1]
    ELSE [d EXCEPT !.j = d.j + 1]

\* "eliminate off-diag Z": one pass of the inner "for j in range(i)"
EliminateOffDiagZ(d) ==
    IF d.i >= d.kz
    THEN [d EXCEPT !.pc = "elimDiagZ", !.i = 0]
    ELSE IF d.j >= d.i
    THEN [d EXCEPT !.i = d.i + 1, !.j = 0]
    ELSE IF d.T.Z[d.i][d.j]
    THEN [d EXCEPT !.T = cz(d.T, d.i, d.j), !.T2 = cz(d.T2, d.i, d.j),
                   !.qc = d.qc \o <<GateH(d.j), GateCX(d.i, d.j), GateH(d.j)>>,
                   !.j = d.j + 1]
    ELSE [d EXCEPT !.j = d.j + 1]

\* "eliminate diag Z" and "switch X and Z": one pass of "for i in range(kz)"
EliminateDiagZ(d) ==
    IF d.i >= d.kz
    THEN [d EXCEPT !.pc = "cleanup"]
    ELSE LET withS == d.T.Z[d.i][d.i]
             Ta == IF withS THEN s(d.T, d.i) ELSE d.T
             T2a == IF withS THEN s(d.T2, d.i) ELSE d.T2
             qca == IF withS THEN Append(d.qc, GateS(d.i)) ELSE d.qc
         IN  [d EXCEPT !.T = h(Ta, d.i), !.T2 = h(T2a, d.i),
                       !.qc = Append(qca, GateH(d.i)), !.i = d.i + 1]

\* The scan of "cleanup": h_to_remove after the gates at Python positions
\* i .. len-1, with last_h[q] = None written as -1.
None == 0 - 1

\* the scan with last_h reset for the first qubit of a gate only
RECURSIVE HScanFirstQubit(_, _, _, _)
HScanFirstQubit(data, i, last_h, h_to_remove) ==
    IF i >= Len(data) THEN h_to_remove
    ELSE LET gate == data[i + 1]
             q0 == gate.qubits[1]
         IN  IF gate.name = "h"
             THEN IF last_h[q0] # None
                  THEN HScanFirstQubit(data, i + 1, last_h,
                                       h_to_remove \o <<last_h[q0], i>>)
                  ELSE HScanFirstQubit(data, i + 1, [last_h EXCEPT ![q0] = i],
                                       h_to_remove)
             ELSE HScanFirstQubit(data, i + 1, [last_h EXCEPT ![q0] = None],
                                  h_to_remove)

RECURSIVE HScan(_, _, _, _)
HScan(data, i, last_h, h_to_remove) ==
    IF i >= Len(data) THEN h_to_remove
    ELSE LET gate == data[i + 1]
             q0 == gate.qubits[1]
         IN  IF gate.name = "h"
             THEN IF last_h[q0] # None
                  THEN HScan(data, i + 1, last_h,
                             h_to_remove \o <<last_h[q0], i>>)
                  ELSE HScan(data, i + 1, [last_h EXCEPT ![q0] = i], h_to_remove)
             ELSE HScan(data, i + 1,
                        [q \in DOMAIN last_h |->
                            IF \E a \in 1 .. Len(gate.qubits) : gate.qubits[a] = q
                            THEN None ELSE last_h[q]],
                        h_to_remove)

HToRemove(data, n) == HScan(data, 0, [q \in Range(n) |-> None], <<>>)

\* list.sort()
RECURSIVE SortAsc(_)
SortAsc(l) ==
    IF l = <<>> THEN <<>>
    ELSE LET m == Min({l[a] : a \in 1 .. Len(l)})
             a0 == Min({a \in 1 .. Len(l) : l[a] = m})
         IN  <<m>> \o SortAsc(PopAt(l, a0 - 1))

\* "for i in h_to_remove[::-1]: qc.data.pop(i)"; ok is FALSE when a pop is
\* out of range (IndexError)
RECURSIVE PopReversed(_, _)
PopReversed(data, sorted) ==
    IF sorted = <<>> THEN [data |-> data, ok |-> TRUE]
    ELSE LET i == sorted[Len(sorted)]
         IN  IF i >= Len(data) THEN [data |-> data, ok |-> FALSE]
             ELSE PopReversed(PopAt(data, i), SubSeq(sorted, 1, Len(sorted) - 1))

\* "cleanup": remove redundant hadamards
Cleanup(d) ==
    LET res == PopReversed(d.qc, SortAsc(HToRemove(d.qc, d.nq)))
    IN  [d EXCEPT !.qc = res.data,
                  !.pc = IF res.ok THEN "assert" ELSE "IndexError"]

AllZero(M) == \A i \in DOMAIN M : \A j \in DOMAIN M[i] : ~M[i][j]

\* The two assertions and the return
AssertAndReturn(d) ==
    [d EXCEPT !.pc = IF ~AllZero(d.T.X) THEN "FailedCliffordDiagonalization"
                     ELSE IF ~AllZero(d.T2.X) THEN "WorkedInTheoryOnly"
                     ELSE "done"]

\* The returned list [Pauli((Z2[i], X2[i], 2 if S2[i] else 0)) ...]
DiagPaulis(d) ==
    [a \in 1 .. d.rows |->
        [x |-> d.T2.X[a - 1], z |-> d.T2.Z[a - 1],
         phase |-> IF d.T2.S[a - 1] THEN 2 ELSE 0]]

DiagRunning == {"diagX", "diagZ", "swapZX", "elimX", "elimZ", "elimDiagZ",
                "cleanup", "assert"}

DiagStep(d) ==
    CASE d.pc = "diagX" -> DiagonalizeX(d)
      [] d.pc = "diagZ" -> DiagonalizeZ(d)
      [] d.pc = "swapZX" -> SwapDiagZToX(d)
      [] d.pc = "elimX" -> EliminateOffDiagX(d)
      [] d.pc = "elimZ" -> EliminateOffDiagZ(d)
      [] d.pc = "elimDiagZ" -> EliminateDiagZ(d)
      [] d.pc = "cleanup" -> Cleanup(d)
      [] d.pc = "assert" -> AssertAndReturn(d)

\* sim_cliff_diag(paulis) run to its return or to the error that ends it
RECURSIVE DiagRun(_)
DiagRun(d) == IF d.pc \in DiagRunning THEN DiagRun(DiagStep(d)) ELSE d

sim_cliff_diag(ps) == DiagRun(DiagInit(ps))

(* sim_cliff_diag step by step, on every list of commuting Paulis *)

DiagNQ == 2
DiagMaxRows == 2

PairwiseCommuting(ps) ==
    \A a, b \in 1 .. Len(ps) : Commutes(ps[a], ps[b])

InitDiag ==
    /\ paulis \in {ps \in ListsUpTo(PauliSet(DiagNQ), DiagMaxRows) :
                      PairwiseCommuting(ps)}
    /\ commuting_subsets = NoSubsets
    /\ gpos = 0
    /\ diag = DiagInit(paulis)
    /\ walk = Idle
    /\ circuits = <<>>
    /\ master_circuit = <<>>
    /\ tpos = 0
    /\ pc = "sim_cliff_diag"

DiagFrame == <<paulis, commuting_subsets, gpos, walk, circuits, master_circuit, tpos, pc>>

DiagonalizeXStep ==
    /\ pc = "sim_cliff_diag"
    /\ diag.pc = "diagX"
    /\ diag' = DiagonalizeX(diag)
    /\ UNCHANGED DiagFrame

DiagonalizeZStep ==
    /\ pc = "sim_cliff_diag"
    /\ diag.pc = "diagZ"
    /\ diag' = DiagonalizeZ(diag)
    /\ UNCHANGED DiagFrame

SwapDiagZToXStep ==
    /\ pc = "sim_cliff_diag"
    /\ diag.pc = "swapZX"
    /\ diag' = SwapDiagZToX(diag)
    /\ UNCHANGED DiagFrame

EliminateOffDiagXStep ==
    /\ pc = "sim_cliff_diag"
    /\ diag.pc = "elimX"
    /\ diag' = EliminateOffDiagX(diag)
    /\ UNCHANGED DiagFrame

EliminateOffDiagZStep ==
    /\ pc = "sim_cliff_diag"
    /\ diag.pc = "elimZ"
    /\ diag' = EliminateOffDiagZ(diag)
    /\ UNCHANGED DiagFrame

EliminateDiagZStep ==
    /\ pc = "sim_cliff_diag"
    /\ diag.pc = "elimDiagZ"
    /\ diag' = EliminateDiagZ(diag)
    /\ UNCHANGED DiagFrame

CleanupStep ==
    /\ pc = "sim_cliff_diag"
    /\ diag.pc = "cleanup"
    /\ diag' = Cleanup(diag)
    /\ UNCHANGED DiagFrame

AssertAndReturnStep ==
    /\ pc = "sim_cliff_diag"
    /\ diag.pc = "assert"
    /\ diag' = AssertAndReturn(diag)
    /\ UNCHANGED DiagFrame

NextDiag ==
    \/ DiagonalizeXStep
    \/ DiagonalizeZStep
    \/ SwapDiagZToXStep
    \/ EliminateOffDiagXStep
    \/ EliminateOffDiagZStep
    \/ EliminateDiagZStep
    \/ CleanupStep
    \/ AssertAndReturnStep

SpecDiag == InitDiag /\ [][NextDiag]_vars

--------------------------------------------------------------------------
(* Step 3: walk_paulis.  A label is the string Pauli.to_label() returns,  *)
(* as a sequence of characters: its last character is qubit 0.            *)

PauliChar(x, z) ==
    IF x THEN (IF z THEN "Y" ELSE "X") ELSE (IF z THEN "Z" ELSE "I")

\* p.primitive.to_label() of a Pauli of phase 0
to_label(p) ==
    LET n == NumQubits(p)
    IN  [a \in 1 .. n |-> PauliChar(p.x[n - a], p.z[n - a])]

\* 'Z' in start
HasZ(start) == \E a \in 1 .. Len(start) : start[a] = "Z"

\* start.find('Z'): the position in the label, not reversed
find_not_reversed(start) ==
    Min({b \in Range(Len(start)) : start[b + 1] = "Z"})

\* start[::-1].find('Z')
rotating_qubit(start) ==
    Min({b \in Range(Len(start)) : start[Len(start) - b] = "Z"})

GateRZ(theta, i) == Gate("rz", <<i>>, theta)
GateP(lambda, i) == Gate("p", <<i>>, lambda)
GateX(i) == Gate("x", <<i>>, 0)

\* the loop over diag_paulis left at its first match
RECURSIVE MatchingFirst(_, _, _)
MatchingFirst(dp, start, a) ==
    IF a > Len(dp) THEN <<>>
    ELSE IF to_label(dp[a]) = start THEN <<a - 1>>
    ELSE MatchingFirst(dp, start, a + 1)

\* "for i, p in enumerate(diag_paulis): if p.primitive.to_label() == start":
\* the Python positions of the terms whose label is start, in list order
RECURSIVE Matching(_, _, _)
Matching(dp, start, a) ==
    IF a > Len(dp) THEN <<>>
    ELSE (IF to_label(dp[a]) = start THEN <<a - 1>> ELSE <<>>)
         \o Matching(dp, start, a + 1)

\* the rz gates of that loop
RzGates(dp, matched, q) ==
    [a \in 1 .. Len(matched) |-> GateRZ(2 * dp[matched[a] + 1].coeff, q)]

\* What a call does to paulis_qc.data, a list it only appends to and pops
\* from: it removes the last drop gates the list held when the call began,
\* then appends gates.
NoEffect == [drop |-> 0, gates |-> <<>>]

\* paulis_qc.<gate>(...) after the effect e
ThenAppend(e, gate) == [e EXCEPT !.gates = Append(e.gates, gate)]

\* paulis_qc.data.pop() after the effect e
ThenPop(e) ==
    IF e.gates = <<>> THEN [e EXCEPT !.drop = e.drop + 1]
    ELSE [e EXCEPT !.gates = SubSeq(e.gates, 1, Len(e.gates) - 1)]

\* the effect e1 followed by the effect e2
Then(e1, e2) ==
    IF e2.drop <= Len(e1.gates)
    THEN [drop |-> e1.drop,
          gates |-> SubSeq(e1.gates, 1, Len(e1.gates) - e2.drop) \o e2.gates]
    ELSE [drop |-> e1.drop + (e2.drop - Len(e1.gates)), gates |-> e2.gates]

\* walk(start): its effect on paulis_qc.data and the list it returns
RECURSIVE walk_from(_, _)
walk_from(dp, start) ==
    LET n == NumQubits(dp[1])
    IN  IF HasZ(start)
        THEN IF Len(start) = n
             THEN LET matched == Matching(dp, start, 1)
                  IN  [effect |-> [drop |-> 0,
                                   gates |-> RzGates(dp, matched, rotating_qubit(start))],
                       visited |-> matched]
             ELSE LET cx == GateCX(Len(start), rotating_qubit(start))
                      r1 == walk_from(dp, <<"I">> \o start)
                      r2 == walk_from(dp, <<"Z">> \o start)
                      e == Then(ThenAppend(r1.effect, cx), r2.effect)
                  IN  IF r2.visited = <<>>
                      THEN [effect |-> ThenPop(e), visited |-> r1.visited]
                      ELSE [effect |-> ThenAppend(e, cx),
                            visited |-> r1.visited \o r2.visited]
        ELSE IF Len(start) < n
             THEN LET r1 == walk_from(dp, <<"I">> \o start)
                      r2 == walk_from(dp, <<"Z">> \o start)
                  IN  [effect |-> Then(r1.effect, r2.effect),
                       visited |-> r1.visited \o r2.visited]
             ELSE [effect |-> NoEffect, visited |-> <<>>]

\* sum([p.coeff for p in diag_paulis if p.primitive.to_label() == 'I' * n])
RECURSIVE GlobalPhaseFrom(_, _)
GlobalPhaseFrom(dp, a) ==
    IF a > Len(dp) THEN 0
    ELSE (IF \A b \in 1 .. NumQubits(dp[a]) : to_label(dp[a])[b] = "I"
          THEN dp[a].coeff ELSE 0)
         + GlobalPhaseFrom(dp, a + 1)

global_phase(dp) == GlobalPhaseFrom(dp, 1)

\* "do trivial paulis"
GlobalPhaseGates(dp) ==
    IF global_phase(dp) # 0
    THEN <<GateP(0 - global_phase(dp), 0), GateX(0),
           GateP(0 - global_phase(dp), 0), GateX(0)>>
    ELSE <<>>

\* walk_paulis(diag_paulis): the circuit returned; ok is FALSE when a pop
\* finds paulis_qc.data empty (IndexError)
walk_paulis(dp) ==
    LET e == walk_from(dp, <<>>).effect
    IN  [qc |-> e.gates \o GlobalPhaseGates(dp), ok |-> e.drop = 0]

(* walk_paulis step by step: the call stack of walk is explicit.  A frame *)
(* holds start, where the call stands (enter, afterI: walk('I' + start)   *)
(* has returned, afterZ: walk('Z' + start) has returned), its visited     *)
(* list, and mark, the length of the circuit when the frame called        *)
(* walk('Z' + start).                                                     *)

Frame(start) == [start |-> start, at |-> "enter", visited |-> <<>>, mark |-> 0]

WalkInit(dp) ==
    [pc |-> "walk", nq |-> NumQubits(dp[1]), dp |-> dp, qc |-> <<>>,
     stack |-> <<Frame(<<>>)>>, ret |-> <<>>]

Top(w) == w.stack[Len(w.stack)]

\* return visited
Return(w, qc, visited) ==
    [w EXCEPT !.qc = qc, !.ret = visited,
              !.stack = SubSeq(w.stack, 1, Len(w.stack) - 1),
              !.pc = IF Len(w.stack) = 1 THEN "global_phase" ELSE "walk"]

\* a call walk(start) at full length: the rz loop, or nothing for 'I' * n
WalkLeaf(w) ==
    LET f == Top(w)
        matched == Matching(w.dp, f.start, 1)
    IN  IF HasZ(f.start)
        THEN Return(w, w.qc \o RzGates(w.dp, matched, rotating_qubit(f.start)),
                    matched)
        ELSE Return(w, w.qc, <<>>)

\* a call walk(start) below full length calls walk('I' + start)
WalkDescend(w) ==
    [w EXCEPT !.stack = SubSeq(w.stack, 1, Len(w.stack) - 1)
                        \o <<[Top(w) EXCEPT !.at = "afterI"],
                             Frame(<<"I">> \o Top(w).start)>>]

\* walk('I' + start) has returned: the cnot, if start holds a Z, and the
\* call of walk('Z' + start)
WalkBetween(w) ==
    LET f == Top(w)
        qc1 == IF HasZ(f.start)
               THEN Append(w.qc, GateCX(Len(f.start), rotating_qubit(f.start)))
               ELSE w.qc
    IN  [w EXCEPT !.qc = qc1,
                  !.stack = SubSeq(w.stack, 1, Len(w.stack) - 1)
                            \o <<[f EXCEPT !.at = "afterZ", !.visited = w.ret,
                                           !.mark = Len(qc1)],
                                 Frame(<<"Z">> \o f.start)>>]

\* walk('Z' + start) has returned: pop the cnot or repeat it, and return
WalkAfterZ(w) ==
    LET f == Top(w)
    IN  IF ~HasZ(f.start)
        THEN Return(w, w.qc, f.visited \o w.ret)
        ELSE IF w.ret = <<>>
        THEN IF w.qc = <<>> THEN [w EXCEPT !.pc = "IndexError"]
             ELSE Return(w, SubSeq(w.qc, 1, Len(w.qc) - 1), f.visited)
        ELSE Return(w, Append(w.qc, GateCX(Len(f.start), rotating_qubit(f.start))),
                    f.visited \o w.ret)

\* "do trivial paulis" and the return of walk_paulis
WalkGlobalPhase(w) ==
    [w EXCEPT !.qc = w.qc \o GlobalPhaseGates(w.dp), !.pc = "done"]

WalkNQ == 3
WalkMaxTerms == 2

\* coefficients of the diagonal terms, in units of the smallest one
WalkCoeffs == {0 - 1, 1}

ZeroBits(n) == [q \in Range(n) |-> FALSE]

InitWalk ==
    /\ paulis \in ListsUpTo([x : {ZeroBits(WalkNQ)}, z : Bits(WalkNQ),
                             coeff : WalkCoeffs], WalkMaxTerms)
    /\ commuting_subsets = NoSubsets
    /\ gpos = 0
    /\ diag = Idle
    /\ walk = WalkInit(paulis)
    /\ circuits = <<>>
    /\ master_circuit = <<>>
    /\ tpos = 0
    /\ pc = "walk_paulis"

WalkFrame == <<paulis, commuting_subsets, gpos, diag, circuits, master_circuit, tpos, pc>>

WalkLeafStep ==
    /\ pc = "walk_paulis"
    /\ walk.pc = "walk"
    /\ Top(walk).at = "enter"
    /\ Len(Top(walk).start) = walk.nq
    /\ walk' = WalkLeaf(walk)
    /\ UNCHANGED WalkFrame

WalkDescendStep ==
    /\ pc = "walk_paulis"
    /\ walk.pc = "walk"
    /\ Top(walk).at = "enter"
    /\ Len(Top(walk).start) < walk.nq
    /\ walk' = WalkDescend(walk)
    /\ UNCHANGED WalkFrame

WalkBetweenStep ==
    /\ pc = "walk_paulis"
    /\ walk.pc = "walk"
    /\ Top(walk).at = "afterI"
    /\ walk' = WalkBetween(walk)
    /\ UNCHANGED WalkFrame

WalkAfterZStep ==
    /\ pc = "walk_paulis"
    /\ walk.pc = "walk"
    /\ Top(walk).at = "afterZ"
    /\ walk' = WalkAfterZ(walk)
    /\ UNCHANGED WalkFrame

WalkGlobalPhaseStep ==
    /\ pc = "walk_paulis"
    /\ walk.pc = "global_phase"
    /\ walk' = WalkGlobalPhase(walk)
    /\ UNCHANGED WalkFrame

NextWalk ==
    \/ WalkLeafStep
    \/ WalkDescendStep
    \/ WalkBetweenStep
    \/ WalkAfterZStep
    \/ WalkGlobalPhaseStep

SpecWalk == InitWalk /\ [][NextWalk]_vars

--------------------------------------------------------------------------
(* Step 4: troterrize *)

\* n = 2
TrotterSteps == 2

\* the same order counted from 1
order_from_one == <<7, 8, 10, 2, 12, 19, 5, 14, 13, 1, 20, 16, 18, 4, 6, 3, 21, 11, 9, 17, 15>>

\* for i in [6, 7, 9, 1, 11, 18, 4, 13, 12, 0, 19, 15, 17, 3, 5, 2, 20, 10, 8, 16, 14]
order == <<6, 7, 9, 1, 11, 18, 4, 13, 12, 0, 19, 15, 17, 3, 5, 2, 20, 10, 8, 16, 14>>

GateSdg(i) == Gate("sdg", <<i>>, 0)

\* QuantumCircuit.inverse() of a circuit of h, s and cx gates: the gates in
\* reverse order, each replaced by its inverse
InverseGate(gate) == IF gate.name = "s" THEN GateSdg(gate.qubits[1]) ELSE gate

inverse(qc) == [a \in 1 .. Len(qc) |-> InverseGate(qc[Len(qc) + 1 - a])]

\* [p.primitive for p in paulis] for one commuting subset
Primitives(ps, subset) ==
    [a \in 1 .. Len(subset) |-> [x |-> ps[subset[a]].x, z |-> ps[subset[a]].z]]

\* new_paulis with p.coeff where the code has p.coeff/n
new_paulis_undivided(ps, subset, diag_paulis) ==
    [a \in 1 .. Len(subset) |->
        [x |-> diag_paulis[a].x, z |-> diag_paulis[a].z,
         coeff |-> ps[subset[a]].coeff
                   * (IF diag_paulis[a].phase = 0 THEN 1 ELSE 0 - 1)]]

\* new_paulis: PauliOp(Pauli((dp.z, dp.x, 0)), (p.coeff/n) * (1 if dp.phase == 0 else -1)).
\* Coefficients are integers in a unit that n divides.
new_paulis(ps, subset, diag_paulis) ==
    [a \in 1 .. Len(subset) |->
        [x |-> diag_paulis[a].x, z |-> diag_paulis[a].z,
         coeff |-> (ps[subset[a]].coeff \div TrotterSteps)
                   * (IF diag_paulis[a].phase = 0 THEN 1 ELSE 0 - 1)]]

\* One pass of "for paulis in commuting_subsets": the circuit of one subset
\* (ok, with the circuit), or the error that ends the run
GroupCircuit(ps, subset) ==
    LET d == sim_cliff_diag(Primitives(ps, subset))
        w == walk_paulis(new_paulis(ps, subset, DiagPaulis(d)))
    IN  IF d.pc # "done" THEN [pc |-> d.pc, qc |-> <<>>, d |-> d]
        ELSE IF ~w.ok THEN [pc |-> "IndexError", qc |-> <<>>, d |-> d]
        ELSE [pc |-> "done", qc |-> d.qc \o w.qc \o inverse(d.qc), d |-> d]

(* The whole notebook, on inputs the grouping splits into 21 subsets, the  *)
(* number the hard-coded order is written for: 21 mutually anticommuting   *)
(* 10-qubit strings (Z..Z X, Z..Z Y on each qubit, and Z..Z), followed by  *)
(* a few further terms on the low qubits.                                  *)

\* the qubit count of the input strings
NumInputQubits == 10

PipeSupport == 2
PipeMaxExtra == 1

\* coefficients of the input terms, in a unit that n = 2 divides
PipeCoeffs == {0 - 2, 2}

Anticommuting(m, nq) ==
    [x |-> [q \in Range(nq) |-> m < 2 * nq /\ q = m \div 2],
     z |-> [q \in Range(nq) |-> q < m \div 2 \/ (q = m \div 2 /\ m % 2 = 1 /\ m < 2 * nq)],
     coeff |-> 2]

Extended(p, c, nq) ==
    [x |-> [q \in Range(nq) |-> q \in DOMAIN p.x /\ p.x[q]],
     z |-> [q \in Range(nq) |-> q \in DOMAIN p.z /\ p.z[q]],
     coeff |-> c]

ExtraTerms == {Extended(p, c, NumInputQubits) : p \in PauliSet(PipeSupport), c \in PipeCoeffs}

Init ==
    /\ \E extra \in {<<>>} \cup ListsUpTo(ExtraTerms, PipeMaxExtra) :
          paulis = [m \in 1 .. (2 * NumInputQubits + 1) |->
                       Anticommuting(m - 1, NumInputQubits)] \o extra
    /\ commuting_subsets = NoSubsets
    /\ gpos = 0
    /\ diag = Idle
    /\ walk = Idle
    /\ circuits = <<>>
    /\ master_circuit = <<>>
    /\ tpos = 0
    /\ pc = "group"

\* the end of cell bd87b98f is the start of cell b6814e60
StartTrotterize ==
    /\ pc = "grouped"
    /\ pc' = "circuits"
    /\ UNCHANGED <<paulis, commuting_subsets, gpos, diag, walk, circuits,
                   master_circuit, tpos>>

\* one pass of "for paulis in commuting_subsets"
BuildCircuit ==
    /\ pc = "circuits"
    /\ Len(circuits) < Len(commuting_subsets)
    /\ \E c \in {GroupCircuit(paulis, commuting_subsets[Len(circuits) + 1])} :
           /\ diag' = c.d
           /\ IF c.pc = "done"
              THEN circuits' = Append(circuits, c.qc) /\ pc' = pc
              ELSE circuits' = circuits /\ pc' = c.pc
    /\ UNCHANGED <<paulis, commuting_subsets, gpos, walk, master_circuit, tpos>>

\* master_circuit = QuantumCircuit(QuantumRegister(len(circuits[0].qubits), 'q'))
NewMasterCircuit ==
    /\ pc = "circuits"
    /\ Len(circuits) = Len(commuting_subsets)
    /\ pc' = IF circuits = <<>> THEN "IndexError" ELSE "compose"
    /\ UNCHANGED <<paulis, commuting_subsets, gpos, diag, walk, circuits,
                   master_circuit, tpos>>

\* one pass of the inner for of "for _ in range(n): for i in [...]"
Compose ==
    /\ pc = "compose"
    /\ tpos < TrotterSteps * Len(order)
    /\ LET i == order[(tpos % Len(order)) + 1]
       IN  IF i < Len(circuits)
           THEN /\ master_circuit' = master_circuit \o circuits[i + 1]
                /\ tpos' = tpos + 1
                /\ pc' = pc
           ELSE /\ pc' = "IndexError"
                /\ UNCHANGED <<master_circuit, tpos>>
    /\ UNCHANGED <<paulis, commuting_subsets, gpos, diag, walk, circuits>>

\* cell f1b809eb: the circuit is written out
Emit ==
    /\ pc = "compose"
    /\ tpos = TrotterSteps * Len(order)
    /\ pc' = "emitted"
    /\ UNCHANGED <<paulis, commuting_subsets, gpos, diag, walk, circuits,
                   master_circuit, tpos>>

Next ==
    \/ GroupStep
    \/ GroupEnd
    \/ StartTrotterize
    \/ BuildCircuit
    \/ NewMasterCircuit
    \/ Compose
    \/ Emit

Spec == Init /\ [][Next]_vars

NextGroup == GroupStep \/ GroupEnd

SpecGroup == InitGroup /\ [][NextGroup]_vars


--------------------------------------------------------------------------
(* Reference semantics of the gate set, used to state what a circuit does: *)
(* the conjugation g P g^-1 of a signed Pauli string P by a gate g, letter *)
(* by letter.  A signed string is [x, z, s]: the string read from x and z  *)
(* (Y where both are set) times -1 when s.                                 *)

Letter(row, q) == PauliChar(row.x[q], row.z[q])

WithLetter(row, q, c, flip) ==
    [x |-> [row.x EXCEPT ![q] = (c = "X" \/ c = "Y")],
     z |-> [row.z EXCEPT ![q] = (c = "Z" \/ c = "Y")],
     s |-> lx(row.s, flip)]

\* H: X <-> Z, Y -> -Y
ConjH(row, q) ==
    LET c == Letter(row, q)
    IN  IF c = "X" THEN WithLetter(row, q, "Z", FALSE)
        ELSE IF c = "Z" THEN WithLetter(row, q, "X", FALSE)
        ELSE IF c = "Y" THEN WithLetter(row, q, "Y", TRUE)
        ELSE row

\* S: X -> Y, Y -> -X
ConjS(row, q) ==
    LET c == Letter(row, q)
    IN  IF c = "X" THEN WithLetter(row, q, "Y", FALSE)
        ELSE IF c = "Y" THEN WithLetter(row, q, "X", TRUE)
        ELSE row

\* Sdg: X -> -Y, Y -> X
ConjSdg(row, q) ==
    LET c == Letter(row, q)
    IN  IF c = "X" THEN WithLetter(row, q, "Y", TRUE)
        ELSE IF c = "Y" THEN WithLetter(row, q, "X", FALSE)
        ELSE row

\* CNOT, control first: the images of the sixteen two-letter strings
CXTable ==
    [cc \in {"I", "X", "Y", "Z"} |-> [tt \in {"I", "X", "Y", "Z"} |->
        CASE cc = "I" /\ tt = "I" -> <<"I", "I", FALSE>>
          [] cc = "I" /\ tt = "X" -> <<"I", "X", FALSE>>
          [] cc = "I" /\ tt = "Y" -> <<"Z", "Y", FALSE>>
          [] cc = "I" /\ tt = "Z" -> <<"Z", "Z", FALSE>>
          [] cc = "X" /\ tt = "I" -> <<"X", "X", FALSE>>
          [] cc = "X" /\ tt = "X" -> <<"X", "I", FALSE>>
          [] cc = "X" /\ tt = "Y" -> <<"Y", "Z", FALSE>>
          [] cc = "X" /\ tt = "Z" -> <<"Y", "Y", TRUE>>
          [] cc = "Y" /\ tt = "I" -> <<"Y", "X", FALSE>>
          [] cc = "Y" /\ tt = "X" -> <<"Y", "I", FALSE>>
          [] cc = "Y" /\ tt = "Y" -> <<"X", "Z", TRUE>>
          [] cc = "Y" /\ tt = "Z" -> <<"X", "Y", FALSE>>
          [] cc = "Z" /\ tt = "I" -> <<"Z", "I", FALSE>>
          [] cc = "Z" /\ tt = "X" -> <<"Z", "X", FALSE>>
          [] cc = "Z" /\ tt = "Y" -> <<"I", "Y", FALSE>>
          [] cc = "Z" /\ tt = "Z" -> <<"I", "Z", FALSE>>]]

ConjCX(row, c, t) ==
    LET img == CXTable[Letter(row, c)][Letter(row, t)]
    IN  WithLetter(WithLetter(row, c, img[1], img[3]), t, img[2], FALSE)

ConjGate(row, gate) ==
    CASE gate.name = "h" -> ConjH(row, gate.qubits[1])
      [] gate.name = "s" -> ConjS(row, gate.qubits[1])
      [] gate.name = "sdg" -> ConjSdg(row, gate.qubits[1])
      [] gate.name = "cx" -> ConjCX(row, gate.qubits[1], gate.qubits[2])

\* the gates of qc applied in order, first gate first
RECURSIVE ConjFrom(_, _, _)
ConjFrom(row, qc, a) ==
    IF a > Len(qc) THEN row ELSE ConjFrom(ConjGate(row, qc[a]), qc, a + 1)

ConjCircuit(row, qc) == ConjFrom(row, qc, 1)

Signed(p) == [x |-> p.x, z |-> p.z, s |-> FALSE]

\* The qubits whose parity each qubit carries after the CNOTs of qc
RECURSIVE ParityFrom(_, _, _)
ParityFrom(par, qc, a) ==
    IF a > Len(qc) THEN par
    ELSE IF qc[a].name = "cx"
         THEN LET c == qc[a].qubits[1]
                  t == qc[a].qubits[2]
              IN  ParityFrom([par EXCEPT ![t] = (par[t] \ par[c]) \cup (par[c] \ par[t])],
                             qc, a + 1)
         ELSE ParityFrom(par, qc, a + 1)

Parity(qc, n) == ParityFrom([q \in Range(n) |-> {q}], qc, 1)

--------------------------------------------------------------------------
(* Step 1: the grouping *)

\* the terms already placed, as the set of <<group, position in the group>>
Placed == {c \in (1 .. Len(commuting_subsets)) \X (1 .. Len(paulis)) :
              c[2] <= Len(commuting_subsets[c[1]])}

Member(c) == commuting_subsets[c[1]][c[2]]

(* C6: after every pass of the outer loop the groups are a partition of    *)
(* the terms taken so far: each of the first gpos terms is in exactly one  *)
(* group and no other term is in any, no group is empty, the terms of a    *)
(* group commute pairwise, and a group lists its terms in input order.     *)
GroupingIsPartition ==
    /\ \A t \in 1 .. gpos : Cardinality({c \in Placed : Member(c) = t}) = 1
    /\ \A c \in Placed : Member(c) \in 1 .. gpos
    /\ \A k \in 1 .. Len(commuting_subsets) : commuting_subsets[k] # <<>>
    /\ \A c1, c2 \in Placed :
          c1[1] = c2[1] => Commutes(paulis[Member(c1)], paulis[Member(c2)])
    /\ \A c1, c2 \in Placed :
          (c1[1] = c2[1] /\ c1[2] < c2[2]) => Member(c1) < Member(c2)

\* a finished grouping with several groups, one of them of several terms
GroupingIsPartitionWitness ==
    /\ pc = "grouped"
    /\ Len(commuting_subsets) >= 2
    /\ \E k \in 1 .. Len(commuting_subsets) : Len(commuting_subsets[k]) >= 2

(* C8: the grouping is first-fit.  A term commutes with every term that    *)
(* entered its own group before it, and for every lower-indexed group some *)
(* term that entered that group before it anticommutes with it: so it sits *)
(* in the lowest-indexed group that fitted, and a group was opened only    *)
(* when no group fitted.                                                   *)
GroupingIsFirstFit ==
    \A c \in Placed :
        /\ \A c0 \in Placed :
              (c0[1] = c[1] /\ Member(c0) < Member(c))
                  => Commutes(paulis[Member(c0)], paulis[Member(c)])
        /\ \A j \in 1 .. (c[1] - 1) :
              \E c0 \in Placed :
                  /\ c0[1] = j
                  /\ Member(c0) < Member(c)
                  /\ ~Commutes(paulis[Member(c0)], paulis[Member(c)])

\* a term that fitted a later group as well and sits in the earlier one
GroupingIsFirstFitWitness ==
    /\ pc = "grouped"
    /\ \E c \in Placed : \E k \in (c[1] + 1) .. Len(commuting_subsets) :
          /\ commuting_subsets[k][1] < Member(c)
          /\ \A c0 \in Placed :
                (c0[1] = k /\ Member(c0) < Member(c))
                    => Commutes(paulis[Member(c0)], paulis[Member(c)])

--------------------------------------------------------------------------
(* Step 2: sim_cliff_diag *)

DiagFailures ==
    {"SweepError", "IndexError", "FailedCliffordDiagonalization", "WorkedInTheoryOnly"}

\* row i of a tableau as a signed string
TableauRow(T, i) == [x |-> T.X[i], z |-> T.Z[i], s |-> T.S[i]]

RowSet(T) == {TableauRow(T, i) : i \in DOMAIN T.S}

(* C4: on a non-empty list of pairwise-commuting Paulis sim_cliff_diag     *)
(* never fails.  While the two diagonalization loops run, the phase sum t  *)
(* of sweep_rows is even for any two rows of the interim tableau, so       *)
(* sweep_rows never raises; no step ends in an error; and at the return    *)
(* the interim X and the output X2 are all zero and every returned Pauli   *)
(* is made of I and Z only.                                                *)
DiagNeverFails ==
    pc = "sim_cliff_diag" =>
        /\ diag.pc \notin DiagFailures
        /\ ~diag.T.raised
        /\ diag.pc \in {"diagX", "diagZ"} =>
              \A i, j \in Range(diag.rows) : i # j => SweepT(diag.T, i, j) % 2 = 0
        /\ diag.pc = "done" =>
              /\ AllZero(diag.T.X)
              /\ AllZero(diag.T2.X)
              /\ \A D \in {DiagPaulis(diag)} :
                    \A a \in 1 .. diag.rows : \A b \in 1 .. diag.nq :
                        to_label(D[a])[b] \in {"I", "Z"}

\* a return after a row sweep changed the interim rows, with a pivot found
\* in the X loop and another in the Z loop
DiagNeverFailsWitness ==
    /\ pc = "sim_cliff_diag"
    /\ diag.pc = "done"
    /\ diag.kx >= 1
    /\ diag.kz > diag.kx
    /\ RowSet(diag.T) # RowSet(diag.T2)

(* C5: the circuit sim_cliff_diag built (before the cleanup) and the one   *)
(* it returns (after it), applied gate by gate to the row (x, z, sign +)   *)
(* of input P_i, give row i of the output tableau (X2, Z2, S2), for every  *)
(* i; the returned list D is that tableau row by row, D_i carrying phase 2 *)
(* exactly when the sign is -.  Row swaps and row sweeps of the interim    *)
(* tableau leave the order and content of the output rows alone.           *)
DiagConjugates ==
    (pc = "sim_cliff_diag" /\ diag.pc \in {"cleanup", "done"}) =>
        \A i \in Range(diag.rows) :
            \A c \in {ConjCircuit(Signed(paulis[i + 1]), diag.qc)} :
                /\ c = TableauRow(diag.T2, i)
                /\ diag.pc = "done" =>
                      \A D \in {DiagPaulis(diag)[i + 1]} :
                          /\ D.x = c.x
                          /\ D.z = c.z
                          /\ D.phase = (IF c.s THEN 2 ELSE 0)

\* a return with a CNOT in the circuit, a returned Pauli of sign -, and
\* interim rows that differ from the returned ones
DiagConjugatesWitness ==
    /\ pc = "sim_cliff_diag"
    /\ diag.pc = "done"
    /\ \E a \in 1 .. Len(diag.qc) : diag.qc[a].name = "cx"
    /\ \E i \in Range(diag.rows) : diag.T2.S[i]
    /\ diag.T.Z # diag.T2.Z

OnQubit(gate, q) == \E a \in 1 .. Len(gate.qubits) : gate.qubits[a] = q

\* the gates of data at the Python positions i.. that are not in removed
RECURSIVE Without(_, _, _)
Without(data, removed, i) ==
    IF i >= Len(data) THEN <<>>
    ELSE (IF i \in removed THEN <<>> ELSE <<data[i + 1]>>)
         \o Without(data, removed, i + 1)

\* some gate on qubit q at positions i1 .. i3 is not an H
Interrupted(data, q, i1, i3) ==
    \E i \in i1 .. i3 : OnQubit(data[i + 1], q) /\ data[i + 1].name # "h"

\* no positions i1 < i2 < i3 hold three H on one qubit with only H on that
\* qubit between them
NoThreeH(data) ==
    \A i1 \in Range(Len(data)) : data[i1 + 1].name = "h" =>
        \A i2 \in (i1 + 1) .. (Len(data) - 1) : data[i2 + 1] = data[i1 + 1] =>
            \A i3 \in (i2 + 1) .. (Len(data) - 1) : data[i3 + 1] = data[i1 + 1] =>
                Interrupted(data, data[i1 + 1].qubits[1], i1, i3)

\* the Pauli of nq qubits whose label ends with start (I on the qubits start
\* does not reach)
StartPauli(start, nq) ==
    [x |-> [q \in Range(nq) |-> FALSE],
     z |-> [q \in Range(nq) |-> q < Len(start) /\ start[Len(start) - q] = "Z"]]

\* X and Z on each single qubit: two circuits of h, s and cx gates that
\* conjugate these alike conjugate every Pauli string alike
Generators(n) ==
    {p \in PauliSet(n) :
        Cardinality({q \in Range(n) : p.x[q]}) + Cardinality({q \in Range(n) : p.z[q]}) = 1}

(* C9: on every circuit the phases before it build, the cleanup removes    *)
(* only H gates, none twice, in pairs (first, second) on one qubit with no *)
(* gate on that qubit between them; the pops never fail and leave the      *)
(* other gates in their order; the cleaned circuit conjugates X and Z of   *)
(* every qubit, hence every Pauli, as the raw one does; and the raw        *)
(* circuit has no three H in a row on a qubit.                             *)
CleanupRemovesCancellingPairs ==
    (pc = "sim_cliff_diag" /\ diag.pc = "cleanup") =>
        \A data \in {diag.qc} :
        \A rem \in {HToRemove(data, diag.nq)} :
        \A after \in {Cleanup(diag)} :
            /\ Len(rem) % 2 = 0
            /\ \A a \in 1 .. Len(rem) :
                  rem[a] \in Range(Len(data)) /\ data[rem[a] + 1].name = "h"
            /\ \A a, b \in 1 .. Len(rem) : a # b => rem[a] # rem[b]
            /\ \A a \in 1 .. Len(rem) : a % 2 = 1 =>
                  /\ rem[a] < rem[a + 1]
                  /\ data[rem[a] + 1].qubits = data[rem[a + 1] + 1].qubits
                  /\ \A i \in (rem[a] + 1) .. (rem[a + 1] - 1) :
                        ~OnQubit(data[i + 1], data[rem[a] + 1].qubits[1])
            /\ after.pc = "assert"
            /\ after.qc = Without(data, {rem[a] : a \in 1 .. Len(rem)}, 0)
            /\ \A p \in Generators(diag.nq) :
                  ConjCircuit(Signed(p), after.qc) = ConjCircuit(Signed(p), data)
            /\ NoThreeH(data)

\* a cleanup that removes a pair with gates of other qubits between the two
CleanupRemovesCancellingPairsWitness ==
    /\ pc = "sim_cliff_diag"
    /\ diag.pc = "cleanup"
    /\ \E rem \in {HToRemove(diag.qc, diag.nq)} :
          \E a \in 1 .. Len(rem) : a % 2 = 1 /\ rem[a + 1] > rem[a] + 1
    /\ Len(Cleanup(diag).qc) < Len(diag.qc)

--------------------------------------------------------------------------
(* Step 3: walk_paulis *)

\* the qubits where a diagonal Pauli has Z
ZQubits(p) == {q \in Range(NumQubits(p)) : p.z[q]}

\* The CNOTs of qc from position a on that no identical later CNOT closes,
\* open being the ones still waiting: a CNOT equal to the last one waiting
\* closes it.
RECURSIVE Unmatched(_, _, _)
Unmatched(qc, a, open) ==
    IF a > Len(qc) THEN open
    ELSE IF qc[a].name # "cx" THEN Unmatched(qc, a + 1, open)
    ELSE IF open # <<>> /\ open[Len(open)] = qc[a]
         THEN Unmatched(qc, a + 1, SubSeq(open, 1, Len(open) - 1))
         ELSE Unmatched(qc, a + 1, Append(open, qc[a]))

(* C10: the CNOT bookkeeping of walk_paulis.  Every RZ in the circuit is   *)
(* the rotation of a term of the list: it has the term's angle, sits on    *)
(* the lowest qubit where the term has Z, and the CNOTs before it make     *)
(* that qubit carry the parity of exactly the qubits where the term has Z. *)
(* When walk('Z' + start) returned an empty list, the circuit is as long   *)
(* as when the call began and ends with the CNOT appended just before it,  *)
(* so the pop removes that CNOT.  No pop finds the circuit empty.  When    *)
(* walk('') has returned, every CNOT is closed by an identical later one   *)
(* and the CNOTs leave every qubit with its own parity.                    *)
WalkCnotBookkeeping ==
    pc = "walk_paulis" =>
        /\ walk.pc # "IndexError"
        /\ \A a \in 1 .. Len(walk.qc) : walk.qc[a].name = "rz" =>
              \A par \in {Parity(SubSeq(walk.qc, 1, a - 1), walk.nq)} :
                  \E b \in 1 .. Len(walk.dp) :
                      /\ ZQubits(walk.dp[b]) # {}
                      /\ walk.qc[a].qubits = <<Min(ZQubits(walk.dp[b]))>>
                      /\ walk.qc[a].param = 2 * walk.dp[b].coeff
                      /\ par[walk.qc[a].qubits[1]] = ZQubits(walk.dp[b])
        /\ (/\ walk.pc = "walk"
            /\ Top(walk).at = "afterZ"
            /\ HasZ(Top(walk).start)
            /\ walk.ret = <<>>) =>
              /\ Len(walk.qc) = Top(walk).mark
              /\ walk.qc # <<>>
              /\ walk.qc[Len(walk.qc)]
                    = GateCX(Len(Top(walk).start), Min(ZQubits(StartPauli(Top(walk).start, walk.nq))))
        /\ walk.pc \in {"global_phase", "done"} =>
              /\ Unmatched(walk.qc, 1, <<>>) = <<>>
              /\ Parity(walk.qc, walk.nq) = [q \in Range(walk.nq) |-> {q}]

\* a returned circuit with a rotation on a qubit that carries the parity of
\* several qubits, for a list that also holds a term with Z on qubit 0 alone
WalkCnotBookkeepingWitness ==
    /\ pc = "walk_paulis"
    /\ walk.pc = "done"
    /\ \E a \in 1 .. Len(walk.qc) :
          /\ walk.qc[a].name = "rz"
          /\ Cardinality(Parity(SubSeq(walk.qc, 1, a - 1), walk.nq)[walk.qc[a].qubits[1]]) >= 2
    /\ \E b \in 1 .. Len(walk.dp) : ZQubits(walk.dp[b]) = {0}

--------------------------------------------------------------------------
(* The whole notebook *)

GateSet == {"cx", "h", "s", "sdg", "rz", "p", "x"}

NamesOf(qc) == {qc[a].name : a \in 1 .. Len(qc)}

\* a single-qubit gate or a CNOT of the gate set, on qubits of a register
\* of n qubits
InGateSet(gate, n) ==
    /\ gate.name \in GateSet
    /\ \A a \in 1 .. Len(gate.qubits) : gate.qubits[a] \in Range(n)
    /\ IF gate.name = "cx"
       THEN Len(gate.qubits) = 2 /\ gate.qubits[1] # gate.qubits[2]
       ELSE Len(gate.qubits) = 1

--------------------------------------------------------------------------
(* Step 3: every term once *)

\* how many times the Python position i occurs in the list l
Occurrences(l, i) == Cardinality({a \in 1 .. Len(l) : l[a] = i})

\* the sum of the coefficients of the terms of dp at the positions in S
RECURSIVE CoeffSum(_, _)
CoeffSum(dp, S) ==
    IF S = {} THEN 0
    ELSE LET b == Min(S) IN dp[b].coeff + CoeffSum(dp, S \ {b})

\* the coefficients of the all-identity terms of dp, summed
IdentitySum(dp) == CoeffSum(dp, {b \in 1 .. Len(dp) : ZQubits(dp[b]) = {}})

IsRz(gate) == gate.name = "rz"

IsPhase(gate) == gate.name \in {"p", "x"}

(* C11: walk_paulis handles every term exactly once.  When walk('') has    *)
(* returned, its visited list holds each position whose label has a Z      *)
(* exactly once and no position of an all-identity label; the RZ gates of  *)
(* the circuit are, in order, one per visited position, with angle twice   *)
(* that term's coefficient; and the returned circuit holds P, X, P, X on   *)
(* qubit 0 with angle minus the summed identity coefficients, as its last  *)
(* four gates, exactly when that sum is not zero, and no P or X otherwise. *)
WalkHandlesEveryTermOnce ==
    (pc = "walk_paulis" /\ walk.pc \in {"global_phase", "done"}) =>
        /\ \A b \in 1 .. Len(walk.dp) :
              Occurrences(walk.ret, b - 1) = (IF ZQubits(walk.dp[b]) # {} THEN 1 ELSE 0)
        /\ \A a \in 1 .. Len(walk.ret) : walk.ret[a] \in Range(Len(walk.dp))
        /\ \A rzs \in {SelectSeq(walk.qc, IsRz)} :
              /\ Len(rzs) = Len(walk.ret)
              /\ \A a \in 1 .. Len(rzs) :
                    /\ rzs[a].param = 2 * walk.dp[walk.ret[a] + 1].coeff
                    /\ rzs[a].qubits = <<Min(ZQubits(walk.dp[walk.ret[a] + 1]))>>
        /\ walk.pc = "global_phase" => SelectSeq(walk.qc, IsPhase) = <<>>
        /\ walk.pc = "done" =>
              \A sum \in {IdentitySum(walk.dp)} :
                  IF sum # 0
                  THEN /\ Len(walk.qc) >= 4
                       /\ SubSeq(walk.qc, Len(walk.qc) - 3, Len(walk.qc))
                             = <<Gate("p", <<0>>, 0 - sum), Gate("x", <<0>>, 0),
                                 Gate("p", <<0>>, 0 - sum), Gate("x", <<0>>, 0)>>
                       /\ Len(SelectSeq(walk.qc, IsPhase)) = 4
                  ELSE SelectSeq(walk.qc, IsPhase) = <<>>

\* a returned circuit for two terms of one label with a Z and different
\* coefficients: two rotations
WalkHandlesEveryTermOnceWitness ==
    /\ pc = "walk_paulis"
    /\ walk.pc = "done"
    /\ Len(walk.dp) = 2
    /\ ZQubits(walk.dp[1]) = ZQubits(walk.dp[2])
    /\ Cardinality(ZQubits(walk.dp[1])) >= 2
    /\ walk.dp[1].coeff # walk.dp[2].coeff
    /\ Len(SelectSeq(walk.qc, IsRz)) = 2

--------------------------------------------------------------------------
(* Step 4: the Trotter concatenation *)

\* the circuits of the groups order[1], .., order[a], one after the other
RECURSIVE InOrder(_)
InOrder(a) ==
    IF a = 0 THEN <<>> ELSE InOrder(a - 1) \o circuits[order[a] + 1]

\* t passes of the inner loop: full rounds, then the start of the next
Rounds(t) ==
    IF t >= Len(order) THEN InOrder(Len(order)) \o InOrder(t - Len(order))
    ELSE InOrder(t)

\* Of the group that sim_cliff_diag last ran on, whose diagonal Paulis are
\* the rows of diag.T2: the terms (positions in the group) whose diagonal
\* Pauli has a Z, and those whose diagonal Pauli is the identity
RotatedTerms(subset) ==
    {a \in 1 .. Len(subset) : \E q \in Range(diag.nq) : diag.T2.Z[a - 1][q]}

IdentityTerms(subset) == (1 .. Len(subset)) \ RotatedTerms(subset)

\* the coefficient of term a of the group, with the sign of its diagonal Pauli
SignedCoeff(subset, a) ==
    paulis[subset[a]].coeff * (IF diag.T2.S[a - 1] THEN 0 - 1 ELSE 1)

RECURSIVE SignedSum(_, _)
SignedSum(subset, S) ==
    IF S = {} THEN 0
    ELSE LET a == Min(S) IN SignedCoeff(subset, a) + SignedSum(subset, S \ {a})

(* C12: the Trotter concatenation applies every group equally.  The        *)
(* hard-coded order is a permutation of 0..20; with the 21 groups no index *)
(* is out of range, after t passes the master circuit is the circuits of   *)
(* the first t entries of the repeated order, and the emitted circuit is   *)
(* n = 2 identical rounds of all 21.  In a group circuit the rotations     *)
(* are, counted with multiplicity, one per term whose diagonal Pauli has a *)
(* Z, with n times the angle equal to twice the term's coefficient times   *)
(* the sign of its diagonal Pauli, and n times the angle of each P gate is *)
(* minus the signed coefficients of the identity terms: over the n rounds  *)
(* each term is applied with its full coefficient.                         *)
TrotterAppliesGroupsEqually ==
    /\ Len(order) = 21
    /\ {order[a] : a \in 1 .. Len(order)} = 0 .. 20
    /\ pc # "IndexError"
    /\ pc \in {"compose", "emitted"} =>
          /\ Len(circuits) = Len(order)
          /\ Len(commuting_subsets) = Len(order)
          /\ tpos <= TrotterSteps * Len(order)
          /\ master_circuit = Rounds(tpos)
    /\ pc = "emitted" =>
          /\ tpos = TrotterSteps * Len(order)
          /\ master_circuit = InOrder(Len(order)) \o InOrder(Len(order))
    /\ (pc = "circuits" /\ circuits # <<>>) =>
          \A c \in {circuits[Len(circuits)]} :
          \A subset \in {commuting_subsets[Len(circuits)]} :
              /\ \A v \in {TrotterSteps * c[a].param : a \in {b \in 1 .. Len(c) : IsRz(c[b])}}
                          \cup {2 * SignedCoeff(subset, a) : a \in RotatedTerms(subset)} :
                    Cardinality({a \in 1 .. Len(c) :
                                    IsRz(c[a]) /\ TrotterSteps * c[a].param = v})
                        = Cardinality({a \in RotatedTerms(subset) :
                                          2 * SignedCoeff(subset, a) = v})
              /\ \A a \in 1 .. Len(c) : c[a].name = "p" =>
                    TrotterSteps * c[a].param
                        = 0 - SignedSum(subset, IdentityTerms(subset))

\* an emitted circuit of two equal halves for an input of more than 21
\* terms, the last group circuit built holding a rotation
TrotterAppliesGroupsEquallyWitness ==
    /\ pc = "emitted"
    /\ Len(paulis) > Len(order)
    /\ master_circuit # <<>>
    /\ SubSeq(master_circuit, 1, Len(master_circuit) \div 2)
          = SubSeq(master_circuit, Len(master_circuit) \div 2 + 1, Len(master_circuit))
    /\ \E a \in 1 .. Len(circuits[Len(circuits)]) : IsRz(circuits[Len(circuits)][a])

--------------------------------------------------------------------------
(* Step 2: the interim and the output tableau *)

\* row i of the matrix (X | Z) of tableau T, as the pair of its x and z bits
BitRow(T, i) == <<T.X[i], T.Z[i]>>

\* the sum over GF(2) of two such rows
BitRowSum(v, w) ==
    <<[q \in DOMAIN v[1] |-> v[1][q] # w[1][q]],
      [q \in DOMAIN v[2] |-> v[2][q] # w[2][q]]>>

\* the GF(2) space spanned by the rows i, .., rows - 1 of (X | Z) and by V
RECURSIVE SpanFrom(_, _, _, _)
SpanFrom(T, i, rows, V) ==
    IF i = rows THEN V
    ELSE SpanFrom(T, i + 1, rows, V \cup {BitRowSum(v, BitRow(T, i)) : v \in V})

\* the GF(2) row space of (X | Z)
RowSpace(T, rows, n) ==
    SpanFrom(T, 0, rows, {<<[q \in Range(n) |-> FALSE], [q \in Range(n) |-> FALSE]>>})

==========================================================================
